---- MODULE Spec2Model ----
(***************************************************************************)
(* State-machine model of the game registry of botkviz.py: GameSession,    *)
(* GameManager and the web-app handler that drives them.  Every asyncio    *)
(* handler runs atomically between two awaits, so each action below is one *)
(* such atomic stretch of a handler.                                       *)
(***************************************************************************)
EXTENDS Integers, Sequences, FiniteSets, TLC

(* ------------------------------ bounds -------------------------------- *)
\* Telegram user ids are 1..NumUsers.
NumUsers == 3
\* Number of game codes the generator can draw (the real space is 36^6).
NumCodes == 2
\* Codes the generator draws, and the users there are, in the game-play
\* specification.
NumPlayCodes == 1
NumPlayUsers == 2
\* Number of concurrent wait_for_all clients.
NumWaiters == 2
\* current_question is not bounded by the code; next_question is cut off here.
MaxQuestion == 3
\* The clock advances in steps of TickSeconds, at most MaxTicks times.
MaxTicks == 2
\* Handlers suspended in bot.send_message at the same time.
MaxPending == 1
\* Clients that wait in the specification of the wait to its end.
NumWaitClients == 1

\* Users in the capacity specification: one more than a session holds.
NumCapUsers == 7
NumCapLeavers == 1
\* Users in the results specification.
NumResultUsers == 3

(* ---------------------------- constants ------------------------------- *)
\* cleanup_old_games: games older than 2 hours are removed.
MAX_AGE_SECONDS == 7200
TickSeconds == 7200
\* start_game: minimum number of players.
MIN_PLAYERS == 2
\* config.MAX_PLAYERS
MAX_PLAYERS == 6
\* config.QUESTIONS: question_id is a 0-based index, so question q is
\* QUESTIONS[q + 1].  "options" are the option texts, "correct" a 0-based index.
QUESTIONS ==
    << [options |-> <<"a0", "a1">>, correct |-> 0],
       [options |-> <<"b0", "b1">>, correct |-> 1] >>

Users == 1 .. NumUsers
Waiters == 1 .. NumWaiters
CodeNames == <<"A", "B", "C", "D">>
LowerNames == <<"a", "b", "c", "d">>
\* The codes generate_game_code can produce.
Codes == {CodeNames[i] : i \in 1 .. NumCodes}
PlayCodes == {CodeNames[i] : i \in 1 .. NumPlayCodes}
\* The game_id strings a client sends in the game-play specifications: every
\* code in lower case with blanks around it (a code is unknown while no game
\* uses it).
PlayRaw == {" " \o LowerNames[i] \o " " : i \in 1 .. NumPlayCodes}
PlayUsers == 1 .. NumPlayUsers
\* question_id and answer_index a client can send: every index of the list and
\* one past its end.
QuestionIds == 0 .. Len(QUESTIONS)
AnswerIndexes == 0 .. 2
\* The answer indexes sent in the barrier specification.
BarrierAnswers == {0}

(* ----------------------------- helpers -------------------------------- *)
Range(s) == {s[i] : i \in DOMAIN s}
SeqRemove(s, x) == SelectSeq(s, LAMBDA y : y # x)
DictDel(f, k) == [x \in (DOMAIN f) \ {k} |-> f[x]]
DictSet(f, k, v) == (k :> v) @@ f

\* str.upper() on the strings a client sends here
Upper(raw) ==
    IF \E i \in DOMAIN LowerNames : raw = LowerNames[i]
    THEN CodeNames[CHOOSE i \in DOMAIN LowerNames : raw = LowerNames[i]]
    ELSE IF \E i \in DOMAIN LowerNames : raw = " " \o LowerNames[i] \o " "
    THEN " " \o CodeNames[CHOOSE i \in DOMAIN LowerNames :
                              raw = " " \o LowerNames[i] \o " "] \o " "
    ELSE raw

\* str.strip() on the strings a client sends here
Strip(raw) ==
    IF \E i \in DOMAIN CodeNames : raw = " " \o CodeNames[i] \o " "
    THEN CodeNames[CHOOSE i \in DOMAIN CodeNames :
                       raw = " " \o CodeNames[i] \o " "]
    ELSE IF \E i \in DOMAIN LowerNames : raw = " " \o LowerNames[i] \o " "
    THEN LowerNames[CHOOSE i \in DOMAIN LowerNames :
                        raw = " " \o LowerNames[i] \o " "]
    ELSE raw

\* game_id.upper().strip()
Normalize(raw) == Strip(Upper(raw))

VARIABLES
    games,          \* GameManager.games: code -> GameSession
    games_order,    \* insertion order of the keys of GameManager.games
    user_games,     \* GameManager.user_games: user_id -> code
    used_codes,     \* GameManager.used_codes
    now,            \* datetime.now(), in seconds
    waiters,        \* wait_for_all_players calls, suspended or not
    pending,        \* handlers suspended in bot.send_message with work left
    timed_out,      \* codes of sessions with a wait timed out on the current question
    response        \* the reply composed by the last handler

vars == <<games, games_order, user_games, used_codes, now, waiters, pending,
          timed_out, response>>

(* --------------------------- GameSession ------------------------------ *)
\* GameSession.add_player: the session afterwards
add_player_ok(game, user_id) ==
    user_id \notin Range(game.players) /\ Len(game.players) < MAX_PLAYERS

add_player(game, user_id) ==
    IF add_player_ok(game, user_id)
    THEN [game EXCEPT !.players = Append(@, user_id),
                      !.scores = DictSet(@, user_id, 0),
                      !.answers = DictSet(@, user_id, <<>>)]
    ELSE game

\* GameSession.__init__
NewSession(game_id, creator_id, t) ==
    add_player([game_id |-> game_id,
                creator_id |-> creator_id,
                players |-> <<>>,
                scores |-> <<>>,
                answers |-> <<>>,
                current_question |-> 0,
                started |-> FALSE,
                finished |-> FALSE,
                created_at |-> t,
                answered_players |-> {},
                waiting_for_next |-> FALSE], creator_id)

get_player_count(game) == Len(game.players)

\* all_players_answered with the comparison off by one: true already when one
\* answer is missing.
all_players_answered_off_by_one(game) ==
    Cardinality(game.answered_players) + 1 >= Len(game.players)

\* GameSession.all_players_answered
all_players_answered(game) ==
    Cardinality(game.answered_players) = Len(game.players)

\* reset_for_next_question without answered_players.clear().
reset_event_only(game) ==
    [game EXCEPT !.waiting_for_next = FALSE]

\* reset_for_next_question without the Event.clear().
reset_answered_only(game) ==
    [game EXCEPT !.answered_players = {}]

\* GameSession.reset_for_next_question
reset_for_next_question(game) ==
    [game EXCEPT !.answered_players = {}, !.waiting_for_next = FALSE]

\* GameSession.submit_answer that adds to the score whatever the answer.
session_submit_answer_scoring_all(game, user_id, question_id, answer, is_correct) ==
    [game EXCEPT
        !.answers[user_id] = Append(@, [question_id |-> question_id,
                                        answer |-> answer,
                                        correct |-> is_correct]),
        !.scores[user_id] = @ + 1]

\* GameSession.submit_answer
session_submit_answer(game, user_id, question_id, answer, is_correct) ==
    [game EXCEPT
        !.answers[user_id] = Append(@, [question_id |-> question_id,
                                        answer |-> answer,
                                        correct |-> is_correct]),
        !.scores[user_id] = IF is_correct THEN @ + 1 ELSE @]

(* ----------------------------- replies -------------------------------- *)
\* The reply a handler composes (the dict it passes to json.dumps); fields a
\* reply does not carry keep the value they have here.
NoResponse ==
    [op |-> "none", status |-> "none", error |-> "", correct |-> FALSE,
     correct_answer |-> "", score |-> 0, all_answered |-> FALSE,
     timeout |-> FALSE, answered_count |-> 0, total_players |-> 0,
     current_question |-> 0, started |-> FALSE, finished |-> FALSE,
     results |-> <<>>]

Reply(r) == r @@ NoResponse

(* ------------------------------ Init ---------------------------------- *)
Idle == [st |-> "idle", game_id |-> ""]

\* GameManager.__init__, and no handler running
Init ==
    /\ games = <<>>
    /\ games_order = <<>>
    /\ user_games = <<>>
    /\ used_codes = {}
    /\ now = 0
    /\ waiters = [w \in Waiters |-> Idle]
    /\ pending = <<>>
    /\ timed_out = {}
    /\ response = NoResponse

Live == DOMAIN games
Roster(c) == Range(games[c].players)

\* The registry part of the state as one value, so that a handler's calls compose.
Registry ==
    [games |-> games, games_order |-> games_order, user_games |-> user_games,
     used_codes |-> used_codes, waiters |-> waiters, pending |-> pending,
     timed_out |-> timed_out]

SetRegistry(R) ==
    /\ games' = R.games
    /\ games_order' = R.games_order
    /\ user_games' = R.user_games
    /\ used_codes' = R.used_codes
    /\ waiters' = R.waiters
    /\ pending' = R.pending
    /\ timed_out' = R.timed_out

(* --------------------------- end_game --------------------------------- *)
\* A wait suspended on the event of a session that leaves the registry keeps
\* waiting on that object's event, which nothing can set any more.
OrphanWaiters(ws, c) ==
    [w \in Waiters |->
        IF ws[w].st = "waiting" /\ ws[w].game_id = c
        THEN [ws[w] EXCEPT !.st = "orphan"] ELSE ws[w]]

\* A handler suspended in send_message holds the session object, not its code:
\* once the session has left the registry its roster does not change any more.
OrphanPending(ps, c, g) ==
    [i \in DOMAIN ps |->
        IF ps[i].game_id = c /\ ps[i].obj = "live" /\ ps[i].kind = "leave"
        THEN [ps[i] EXCEPT !.obj = IF Len(g.players) = 0 THEN "dead_empty"
                                   ELSE "dead_nonempty"]
        ELSE IF ps[i].game_id = c /\ ps[i].obj = "live" /\ ps[i].kind = "start"
        THEN [ps[i] EXCEPT !.obj = "dead_nonempty"]
        ELSE ps[i]]

\* GameManager.end_game on registry R
end_game(R, game_id) ==
    IF game_id \in DOMAIN R.games
    THEN [R EXCEPT
            !.games = DictDel(@, game_id),
            !.games_order = SeqRemove(@, game_id),
            !.user_games = [u \in (DOMAIN R.user_games)
                                    \ Range(R.games[game_id].players)
                                |-> R.user_games[u]],
            !.used_codes = @ \ {game_id},
            !.waiters = OrphanWaiters(@, game_id),
            !.pending = OrphanPending(@, game_id, R.games[game_id]),
            !.timed_out = @ \ {game_id}]
    ELSE R

(* ------------------------- create / join ------------------------------ *)
\* generate_game_code without the test of games and used_codes.
EveryCode == Codes

\* GameManager.generate_game_code: the codes the loop can return
FreeCodes == {c \in Codes : c \notin DOMAIN games /\ c \notin used_codes}

\* GameManager.create_game (cmd_game, action create_game); game_id is the
\* code random.choices happens to draw.
create_game(creator_id, game_id) ==
    /\ game_id \in FreeCodes
    /\ used_codes' = used_codes \cup {game_id}
    /\ games' = DictSet(games, game_id, NewSession(game_id, creator_id, now))
    /\ games_order' = Append(games_order, game_id)
    /\ user_games' = DictSet(user_games, creator_id, game_id)
    /\ response' = Reply([op |-> "create_game", status |-> "success",
                          total_players |-> 1])
    /\ UNCHANGED <<now, waiters, pending, timed_out>>

\* join_game without the test of started.
join_ok_any_phase(game_id, user_id) ==
    /\ game_id \in DOMAIN games
    /\ get_player_count(games[game_id]) < MAX_PLAYERS
    /\ add_player_ok(games[game_id], user_id)

\* join_game without any test of the player count.
join_ok_without_capacity(game_id, user_id) ==
    /\ game_id \in DOMAIN games
    /\ ~games[game_id].started
    /\ user_id \notin Range(games[game_id].players)

\* GameManager.join_game: the condition under which the roster grows
join_ok(game_id, user_id) ==
    /\ game_id \in DOMAIN games
    /\ ~games[game_id].started
    /\ get_player_count(games[game_id]) < MAX_PLAYERS
    /\ add_player_ok(games[game_id], user_id)

\* GameManager.join_game (cmd_join, action join_game)
join_game(raw, user_id) ==
    LET game_id == Normalize(raw) IN
    IF join_ok(game_id, user_id)
    THEN /\ games' = [games EXCEPT ![game_id] = add_player(@, user_id)]
         /\ user_games' = DictSet(user_games, user_id, game_id)
         /\ response' = Reply([op |-> "join_game", status |-> "success",
                               total_players |-> get_player_count(games[game_id]) + 1])
         /\ UNCHANGED <<games_order, used_codes, now, waiters, pending, timed_out>>
    ELSE /\ response' = Reply([op |-> "join_game", status |-> "error",
                               error |-> "join failed"])
         /\ UNCHANGED <<games, games_order, user_games, used_codes, now, waiters,
                        pending, timed_out>>

(* ------------------------------ start --------------------------------- *)
\* start_game without the test of the creator.
start_game_any_requester(raw, user_id) ==
    LET game_id == Normalize(raw) IN
    IF game_id \in DOMAIN games /\ Len(games[game_id].players) >= MIN_PLAYERS
    THEN /\ Len(pending) < MaxPending
         /\ games' = [games EXCEPT ![game_id].started = TRUE]
         /\ pending' = Append(pending, [kind |-> "start", game_id |-> game_id,
                                        obj |-> "live"])
         /\ UNCHANGED <<games_order, user_games, used_codes, now, waiters,
                        timed_out, response>>
    ELSE /\ response' = Reply([op |-> "start_game", status |-> "error",
                               error |-> "start failed"])
         /\ UNCHANGED <<games, games_order, user_games, used_codes, now, waiters,
                        pending, timed_out>>

\* GameManager.start_game up to its first await: started is set, then the
\* players are notified one by one (bot.send_message), the handler suspended.
start_game(raw, user_id) ==
    LET game_id == Normalize(raw) IN
    IF game_id \in DOMAIN games /\ games[game_id].creator_id = user_id
       /\ Len(games[game_id].players) >= MIN_PLAYERS
    THEN /\ Len(pending) < MaxPending
         /\ games' = [games EXCEPT ![game_id].started = TRUE]
         /\ pending' = Append(pending, [kind |-> "start", game_id |-> game_id,
                                        obj |-> "live"])
         /\ UNCHANGED <<games_order, user_games, used_codes, now, waiters,
                        timed_out, response>>
    ELSE /\ response' = Reply([op |-> "start_game", status |-> "error",
                               error |-> "start failed"])
         /\ UNCHANGED <<games, games_order, user_games, used_codes, now, waiters,
                        pending, timed_out>>

\* Drop the i-th suspended handler.
DropPending(ps, i) == SubSeq(ps, 1, i - 1) \o SubSeq(ps, i + 1, Len(ps))

\* GameManager.start_game after the notification loop: the loop iterates
\* game.players, so a leave during it raises RuntimeError (dictionary changed
\* size), which handle_webapp_data catches and answers with status error.
start_game_resume(i) ==
    /\ i \in DOMAIN pending
    /\ pending[i].kind = "start"
    /\ pending' = DropPending(pending, i)
    /\ response' = IF pending[i].obj = "changed"
                   THEN Reply([op |-> "start_game", status |-> "error",
                               error |-> "RuntimeError"])
                   ELSE Reply([op |-> "start_game", status |-> "success"])
    /\ UNCHANGED <<games, games_order, user_games, used_codes, now, waiters,
                   timed_out>>

(* ------------------------------ submit -------------------------------- *)
\* A set() that wakes one waiter only, as Condition.notify() would.
ReleaseOneWaiter(ws, c) ==
    LET ww == {w \in Waiters : ws[w].st = "waiting" /\ ws[w].game_id = c}
    IN [w \in Waiters |->
           IF w \in ww /\ \A v \in ww : w <= v
           THEN [ws[w] EXCEPT !.st = "released"] ELSE ws[w]]

\* game.waiting_for_next.set(): every wait suspended on the event is released
\* (asyncio.Event.set resolves the future of each waiter at once).
ReleaseWaiters(ws, c) ==
    [w \in Waiters |->
        IF ws[w].st = "waiting" /\ ws[w].game_id = c
        THEN [ws[w] EXCEPT !.st = "released"] ELSE ws[w]]

\* submit_answer without the test of answered_players.
submit_check_without_answered(gs, raw, user_id, question_id, answer_index) ==
    LET game_id == Normalize(raw) IN
    IF game_id \notin DOMAIN gs THEN "Game not found"
    ELSE IF ~gs[game_id].started THEN "Game not started"
    ELSE IF question_id # gs[game_id].current_question THEN "Wrong question"
    ELSE IF question_id + 1 \notin DOMAIN QUESTIONS THEN "IndexError"
    ELSE IF answer_index + 1 \notin DOMAIN QUESTIONS[question_id + 1].options
         THEN "IndexError"
    ELSE IF user_id \notin DOMAIN gs[game_id].answers THEN "KeyError"
    ELSE ""

\* GameManager.submit_answer on the sessions gs: the error it returns, "" when
\* the answer is accepted.  IndexError (QUESTIONS[question_id], the option
\* looked up) and KeyError (self.answers[user_id] of a user not in the roster)
\* are raised before anything is written; handle_webapp_data catches them and
\* answers with status error.
submit_check(gs, raw, user_id, question_id, answer_index) ==
    LET game_id == Normalize(raw) IN
    IF game_id \notin DOMAIN gs THEN "Game not found"
    ELSE IF ~gs[game_id].started THEN "Game not started"
    ELSE IF question_id # gs[game_id].current_question THEN "Wrong question"
    ELSE IF user_id \in gs[game_id].answered_players THEN "Already answered"
    ELSE IF question_id + 1 \notin DOMAIN QUESTIONS THEN "IndexError"
    ELSE IF answer_index + 1 \notin DOMAIN QUESTIONS[question_id + 1].options
         THEN "IndexError"
    ELSE IF user_id \notin DOMAIN gs[game_id].answers THEN "KeyError"
    ELSE ""

submit_error(raw, user_id, question_id, answer_index) ==
    submit_check(games, raw, user_id, question_id, answer_index)

\* GameManager.submit_answer (action submit_answer)
submit_answer(raw, user_id, question_id, answer_index) ==
    LET game_id == Normalize(raw)
        err == submit_error(raw, user_id, question_id, answer_index)
    IN
    IF err = ""
    THEN LET question == QUESTIONS[question_id + 1]
             is_correct == (answer_index = question.correct)
             g1 == session_submit_answer(games[game_id], user_id, question_id,
                                         question.options[answer_index + 1],
                                         is_correct)
             g2 == [g1 EXCEPT !.answered_players = @ \cup {user_id}]
             all_answered == all_players_answered(g2)
             g3 == IF all_answered THEN [g2 EXCEPT !.waiting_for_next = TRUE]
                   ELSE g2
         IN
         /\ games' = [games EXCEPT ![game_id] = g3]
         /\ waiters' = IF all_answered THEN ReleaseWaiters(waiters, game_id)
                       ELSE waiters
         /\ response' = Reply([op |-> "submit_answer", status |-> "success",
                               correct |-> is_correct,
                               correct_answer |->
                                   question.options[question.correct + 1],
                               score |-> g3.scores[user_id],
                               all_answered |-> all_answered,
                               answered_count |-> Cardinality(g3.answered_players),
                               total_players |-> Len(g3.players)])
         /\ UNCHANGED <<games_order, user_games, used_codes, now, pending,
                        timed_out>>
    ELSE /\ response' = Reply([op |-> "submit_answer", status |-> "error",
                               error |-> err])
         /\ UNCHANGED <<games, games_order, user_games, used_codes, now, waiters,
                        pending, timed_out>>

(* ------------------------------- wait --------------------------------- *)
\* GameManager.wait_for_all_players up to its await (action wait_for_all);
\* Event.wait() returns at once when the event is set.
wait_for_all_players(w, raw) ==
    LET game_id == Normalize(raw) IN
    /\ waiters[w].st = "idle"
    /\ IF game_id \notin DOMAIN games
       THEN /\ response' = Reply([op |-> "wait_for_all", status |-> "error",
                                  error |-> "Game not found"])
            /\ UNCHANGED waiters
       ELSE IF all_players_answered(games[game_id])
               \/ games[game_id].waiting_for_next
       THEN /\ response' = Reply([op |-> "wait_for_all", status |-> "success",
                                  all_answered |-> TRUE, timeout |-> FALSE])
            /\ UNCHANGED waiters
       ELSE /\ waiters' = [waiters EXCEPT ![w] = [st |-> "waiting",
                                                  game_id |-> game_id]]
            /\ UNCHANGED response
    /\ UNCHANGED <<games, games_order, user_games, used_codes, now, pending,
                   timed_out>>

\* wait_for_all_players resumed by the event
wait_released(w) ==
    /\ waiters[w].st = "released"
    /\ waiters' = [waiters EXCEPT ![w] = Idle]
    /\ response' = Reply([op |-> "wait_for_all", status |-> "success",
                          all_answered |-> TRUE, timeout |-> FALSE])
    /\ UNCHANGED <<games, games_order, user_games, used_codes, now, pending,
                   timed_out>>

\* A timeout that answers as a release does.
wait_timeout_as_released(w) ==
    /\ waiters[w].st \in {"waiting", "orphan"}
    /\ waiters' = [waiters EXCEPT ![w] = Idle]
    /\ timed_out' = IF waiters[w].st = "waiting"
                    THEN timed_out \cup {waiters[w].game_id} ELSE timed_out
    /\ response' = Reply([op |-> "wait_for_all", status |-> "success",
                          all_answered |-> TRUE, timeout |-> FALSE])
    /\ UNCHANGED <<games, games_order, user_games, used_codes, now, pending>>

\* A timeout that fires only while the session of the wait is in the registry.
wait_timeout_of_live_session(w) ==
    /\ waiters[w].st = "waiting"
    /\ waiters' = [waiters EXCEPT ![w] = Idle]
    /\ timed_out' = timed_out \cup {waiters[w].game_id}
    /\ response' = Reply([op |-> "wait_for_all", status |-> "success",
                          all_answered |-> FALSE, timeout |-> TRUE])
    /\ UNCHANGED <<games, games_order, user_games, used_codes, now, pending>>

\* wait_for_all_players resumed by asyncio.TimeoutError
wait_timeout(w) ==
    /\ waiters[w].st \in {"waiting", "orphan"}
    /\ waiters' = [waiters EXCEPT ![w] = Idle]
    /\ timed_out' = IF waiters[w].st = "waiting"
                    THEN timed_out \cup {waiters[w].game_id} ELSE timed_out
    /\ response' = Reply([op |-> "wait_for_all", status |-> "success",
                          all_answered |-> FALSE, timeout |-> TRUE])
    /\ UNCHANGED <<games, games_order, user_games, used_codes, now, pending>>

\* A cancellation that takes the other waits of the session off its event.
wait_cancelled_dropping_waiters(w) ==
    /\ waiters[w].st \in {"waiting", "released", "orphan"}
    /\ waiters' = [v \in Waiters |->
                      IF v = w THEN Idle
                      ELSE IF waiters[v].st = "waiting"
                              /\ waiters[v].game_id = waiters[w].game_id
                      THEN [waiters[v] EXCEPT !.st = "orphan"]
                      ELSE waiters[v]]
    /\ UNCHANGED <<games, games_order, user_games, used_codes, now, pending,
                   timed_out, response>>

\* wait_for_all_players abandoned: the task of the handler is cancelled while
\* it is suspended in asyncio.wait_for, CancelledError leaves the handler
\* (it is not an Exception) and no reply is sent.
wait_cancelled(w) ==
    /\ waiters[w].st \in {"waiting", "released", "orphan"}
    /\ waiters' = [waiters EXCEPT ![w] = Idle]
    /\ UNCHANGED <<games, games_order, user_games, used_codes, now, pending,
                   timed_out, response>>

(* ------------------------------ advance ------------------------------- *)
\* next_question that marks the session finished one advance too late.
next_question_finishing_late(raw) ==
    LET game_id == Normalize(raw) IN
    IF game_id \in DOMAIN games /\ games[game_id].started
    THEN LET g1 == reset_for_next_question(
                      [games[game_id] EXCEPT !.current_question = @ + 1])
             g2 == IF g1.current_question > Len(QUESTIONS)
                   THEN [g1 EXCEPT !.finished = TRUE] ELSE g1
         IN
         /\ games[game_id].current_question < MaxQuestion
         /\ games' = [games EXCEPT ![game_id] = g2]
         /\ timed_out' = timed_out \ {game_id}
         /\ response' = Reply([op |-> "next_question", status |-> "success",
                               current_question |-> g2.current_question,
                               finished |-> g2.finished])
         /\ UNCHANGED <<games_order, user_games, used_codes, now, waiters, pending>>
    ELSE /\ response' = Reply([op |-> "next_question", status |-> "error",
                               error |-> "next failed"])
         /\ UNCHANGED <<games, games_order, user_games, used_codes, now, waiters,
                        pending, timed_out>>

\* GameManager.next_question (action next_question)
next_question(raw) ==
    LET game_id == Normalize(raw) IN
    IF game_id \in DOMAIN games /\ games[game_id].started
    THEN LET g1 == reset_for_next_question(
                      [games[game_id] EXCEPT !.current_question = @ + 1])
             g2 == IF g1.current_question >= Len(QUESTIONS)
                   THEN [g1 EXCEPT !.finished = TRUE] ELSE g1
         IN
         /\ games[game_id].current_question < MaxQuestion
         /\ games' = [games EXCEPT ![game_id] = g2]
         /\ timed_out' = timed_out \ {game_id}
         /\ response' = Reply([op |-> "next_question", status |-> "success",
                               current_question |-> g2.current_question,
                               finished |-> g2.finished])
         /\ UNCHANGED <<games_order, user_games, used_codes, now, waiters, pending>>
    ELSE /\ response' = Reply([op |-> "next_question", status |-> "error",
                               error |-> "next failed"])
         /\ UNCHANGED <<games, games_order, user_games, used_codes, now, waiters,
                        pending, timed_out>>

(* ------------------------------ results ------------------------------- *)
\* A descending sort that puts an entry before the entries of equal score.
InsertBeforeTies(sorted, x) ==
    LET k == Cardinality({i \in DOMAIN sorted : sorted[i].score > x.score})
    IN SubSeq(sorted, 1, k) \o <<x>> \o SubSeq(sorted, k + 1, Len(sorted))

\* list.sort(key=score, reverse=True): x goes after every entry whose score is
\* not smaller (the sort is stable).
InsertByScore(sorted, x) ==
    LET k == Cardinality({i \in DOMAIN sorted : sorted[i].score >= x.score})
    IN SubSeq(sorted, 1, k) \o <<x>> \o SubSeq(sorted, k + 1, Len(sorted))

RECURSIVE SortByScore(_)
SortByScore(rs) ==
    IF rs = <<>> THEN <<>>
    ELSE InsertByScore(SortByScore(SubSeq(rs, 1, Len(rs) - 1)), rs[Len(rs)])

\* GameManager.get_results of a live session: game.scores is filled and emptied
\* together with game.players, so it iterates in roster order.  The username
\* is the user's id.
get_results(game) ==
    SortByScore([i \in DOMAIN game.players |->
                    [username |-> game.players[i],
                     score |-> game.scores[game.players[i]],
                     total |-> Len(QUESTIONS)]])

\* action get_results up to its first await: the results are computed and,
\* when there are any, sent to every player before end_game is called.
get_results_action(raw) ==
    LET game_id == Normalize(raw) IN
    IF game_id \in DOMAIN games /\ get_results(games[game_id]) # <<>>
    THEN /\ Len(pending) < MaxPending
         /\ pending' = Append(pending, [kind |-> "results", game_id |-> game_id,
                                        obj |-> "code"])
         /\ response' = Reply([op |-> "get_results", status |-> "success",
                               results |-> get_results(games[game_id])])
         /\ UNCHANGED <<games, games_order, user_games, used_codes, now, waiters,
                        timed_out>>
    ELSE /\ response' = Reply([op |-> "get_results", status |-> "error",
                               error |-> "Game not found"])
         /\ UNCHANGED <<games, games_order, user_games, used_codes, now, waiters,
                        pending, timed_out>>

\* action get_results after the sends: game_manager.end_game(game_id)
get_results_resume(i) ==
    /\ i \in DOMAIN pending
    /\ pending[i].kind = "results"
    /\ SetRegistry(end_game([Registry EXCEPT !.pending = DropPending(@, i)],
                            pending[i].game_id))
    /\ UNCHANGED <<now, response>>

(* ------------------------------- leave -------------------------------- *)
\* The first session, in the order of GameManager.games, with the user in its
\* roster; "" when there is none.
FirstGameOf(user_id) ==
    LET idx == {i \in DOMAIN games_order :
                    user_id \in Range(games[games_order[i]].players)}
    IN IF idx = {} THEN ""
       ELSE games_order[CHOOSE i \in idx : \A j \in idx : i <= j]

\* The deletions of leave_game without the removal from answered_players.
RemovePlayer_keeping_answered(g, user_id) ==
    [g EXCEPT !.players = SeqRemove(@, user_id),
              !.scores = DictDel(@, user_id),
              !.answers = DictDel(@, user_id)]

\* The deletions of action leave_game on session g
RemovePlayer(g, user_id) ==
    [g EXCEPT !.players = SeqRemove(@, user_id),
              !.scores = DictDel(@, user_id),
              !.answers = DictDel(@, user_id),
              !.answered_players = @ \ {user_id}]

\* A start_game suspended in its loop over the roster of session c sees the
\* roster change size.
RosterChanged(ps, c) ==
    [i \in DOMAIN ps |->
        IF ps[i].kind = "start" /\ ps[i].game_id = c /\ ps[i].obj = "live"
        THEN [ps[i] EXCEPT !.obj = "changed"] ELSE ps[i]]

LeaveReply == Reply([op |-> "leave_game", status |-> "success"])

\* action leave_game up to its await (if it has one)
leave_game(raw, user_id) ==
    LET game_id == Normalize(raw)
        gid == FirstGameOf(user_id)
    IN
    IF user_id \notin DOMAIN user_games
    THEN /\ response' = Reply([op |-> "leave_game", status |-> "error",
                               error |-> "not in a game"])
         /\ UNCHANGED <<games, games_order, user_games, used_codes, now, waiters,
                        pending, timed_out>>
    ELSE IF gid = ""
    THEN /\ response' = LeaveReply
         /\ UNCHANGED <<games, games_order, user_games, used_codes, now, waiters,
                        pending, timed_out>>
    ELSE LET R1 == [Registry EXCEPT
                        !.games[gid] = RemovePlayer(@, user_id),
                        !.user_games = DictDel(@, user_id),
                        !.pending = RosterChanged(@, gid)]
         IN
         IF gid = game_id /\ games[gid].creator_id # user_id
         THEN \* the creator is notified: the handler is suspended in send_message
              /\ Len(pending) < MaxPending
              /\ SetRegistry([R1 EXCEPT !.pending =
                                 Append(@, [kind |-> "leave", game_id |-> game_id,
                                            obj |-> "live"])])
              /\ UNCHANGED <<now, response>>
         ELSE /\ SetRegistry(IF Len(R1.games[gid].players) = 0
                             THEN end_game(R1, game_id) ELSE R1)
              /\ response' = LeaveReply
              /\ UNCHANGED now

\* action leave_game after the creator was notified
leave_game_resume(i) ==
    /\ i \in DOMAIN pending
    /\ pending[i].kind = "leave"
    /\ LET p == pending[i]
           R1 == [Registry EXCEPT !.pending = DropPending(@, i)]
           empty == IF p.obj = "live" THEN Len(games[p.game_id].players) = 0
                    ELSE p.obj = "dead_empty"
       IN SetRegistry(IF empty THEN end_game(R1, p.game_id) ELSE R1)
    /\ response' = LeaveReply
    /\ UNCHANGED now

(* ------------------------------- info --------------------------------- *)
\* GameManager.get_game_info (action get_game_info)
get_game_info(raw) ==
    LET game_id == Normalize(raw) IN
    /\ response' =
         IF game_id \in DOMAIN games
         THEN Reply([op |-> "get_game_info", status |-> "success",
                     total_players |-> get_player_count(games[game_id]),
                     answered_count |->
                         Cardinality(games[game_id].answered_players
                                        \cap Range(games[game_id].players)),
                     started |-> games[game_id].started,
                     finished |-> games[game_id].finished,
                     current_question |-> games[game_id].current_question])
         ELSE Reply([op |-> "get_game_info", status |-> "error",
                     error |-> "Game not found"])
    /\ UNCHANGED <<games, games_order, user_games, used_codes, now, waiters,
                   pending, timed_out>>

(* ------------------------------ sweep --------------------------------- *)
RECURSIVE EndAll(_, _)
EndAll(R, cs) ==
    IF cs = <<>> THEN R ELSE EndAll(end_game(R, cs[1]), SubSeq(cs, 2, Len(cs)))

\* cleanup_old_games that also removes a game of exactly the maximum age.
cleanup_at_max_age ==
    LET games_to_remove ==
            SelectSeq(games_order,
                      LAMBDA c : now - games[c].created_at >= MAX_AGE_SECONDS)
    IN /\ SetRegistry(EndAll(Registry, games_to_remove))
       /\ response' = Reply([op |-> "cleanup", status |-> "success",
                             total_players |-> Len(games_to_remove)])
       /\ UNCHANGED now

\* GameManager.cleanup_old_games (cmd_start, cmd_cleanup)
cleanup_old_games ==
    LET games_to_remove ==
            SelectSeq(games_order,
                      LAMBDA c : now - games[c].created_at > MAX_AGE_SECONDS)
    IN /\ SetRegistry(EndAll(Registry, games_to_remove))
       /\ response' = Reply([op |-> "cleanup", status |-> "success",
                             total_players |-> Len(games_to_remove)])
       /\ UNCHANGED now

\* Time passes.
Tick ==
    /\ now < MaxTicks * TickSeconds
    /\ now' = now + TickSeconds
    /\ UNCHANGED <<games, games_order, user_games, used_codes, waiters, pending,
                   timed_out, response>>

(* --------------------------- specifications --------------------------- *)
\* The handlers of the registry: U the users, C the codes the generator draws,
\* R the game_id strings sent.
Lobby(U, C, R) ==
    \/ \E u \in U, c \in C : create_game(u, c)
    \/ \E raw \in R, u \in U : join_game(raw, u)
    \/ \E raw \in R, u \in U : start_game(raw, u)
    \/ \E i \in 1 .. MaxPending : start_game_resume(i)
    \/ \E raw \in R, u \in U : leave_game(raw, u)
    \/ \E i \in 1 .. MaxPending : leave_game_resume(i)
    \/ \E raw \in R : get_results_action(raw)
    \/ \E i \in 1 .. MaxPending : get_results_resume(i)

\* The handlers of the question loop: A the answer indexes sent.
Play(U, R, A) ==
    \/ \E raw \in R, u \in U, q \in QuestionIds, a \in A :
          submit_answer(raw, u, q, a)
    \/ \E raw \in R : next_question(raw)

\* The barrier: W the clients that wait.
Barrier(W, R) ==
    \/ \E w \in W, raw \in R : wait_for_all_players(w, raw)
    \/ \E w \in W : wait_released(w)
    \/ \E w \in W : wait_timeout(w)

\* Game play on one code: every handler but the barrier.
Next ==
    \/ Lobby(PlayUsers, PlayCodes, PlayRaw)
    \/ Play(PlayUsers, PlayRaw, AnswerIndexes)
    \/ \E raw \in PlayRaw : get_game_info(raw)

Spec == Init /\ [][Next]_vars

\* The barrier on one code: the clients wait while the game is played.
NextBarrier ==
    \/ Lobby(PlayUsers, PlayCodes, PlayRaw)
    \/ Play(PlayUsers, PlayRaw, BarrierAnswers)
    \/ Barrier(Waiters, PlayRaw)

SpecBarrier == Init /\ [][NextBarrier]_vars

\* The registry on every code: games are created, joined, started, left and
\* ended, no question is answered.
RegRaw == {" " \o LowerNames[i] \o " " : i \in 1 .. NumCodes}

NextRegistry ==
    \/ Lobby(PlayUsers, Codes, RegRaw)
    \/ \E raw \in RegRaw : get_game_info(raw)

SpecRegistry == Init /\ [][NextRegistry]_vars

\* The sweep: games are created, joined, started and advanced on every code
\* while time passes.
NextSweep ==
    \/ \E u \in PlayUsers, c \in Codes : create_game(u, c)
    \/ \E raw \in RegRaw, u \in PlayUsers : join_game(raw, u)
    \/ \E raw \in RegRaw, u \in PlayUsers : start_game(raw, u)
    \/ \E i \in 1 .. MaxPending : start_game_resume(i)
    \/ \E raw \in RegRaw : next_question(raw)
    \/ cleanup_old_games
    \/ Tick

SpecSweep == Init /\ [][NextSweep]_vars

\* The observers: a game on one code is created, joined, started, answered and
\* advanced while clients wait, abandon their wait, and read the session and
\* its results.
NextObserve ==
    \/ \E u \in PlayUsers, c \in PlayCodes : create_game(u, c)
    \/ \E raw \in PlayRaw, u \in PlayUsers : join_game(raw, u)
    \/ \E raw \in PlayRaw, u \in PlayUsers : start_game(raw, u)
    \/ \E i \in 1 .. MaxPending : start_game_resume(i)
    \/ Play(PlayUsers, PlayRaw, BarrierAnswers)
    \/ Barrier(Waiters, PlayRaw)
    \/ \E w \in Waiters : wait_cancelled(w)
    \/ \E raw \in PlayRaw : get_game_info(raw)
    \/ \E raw \in PlayRaw : get_results_action(raw)
    \/ \E i \in 1 .. MaxPending : get_results_resume(i)

SpecObserve == Init /\ [][NextObserve]_vars

\* The wait to its end: the game on one code is played, left (the session is
\* ended when its roster is empty) and swept while a client waits.  The event
\* loop runs the callback of a set event and the timer of asyncio.wait_for, so
\* a wait that can resume does.
WaitClients == 1 .. NumWaitClients

NextWait ==
    \/ \E u \in PlayUsers, c \in PlayCodes : create_game(u, c)
    \/ \E raw \in PlayRaw, u \in PlayUsers : join_game(raw, u)
    \/ \E raw \in PlayRaw, u \in PlayUsers : start_game(raw, u)
    \/ \E i \in 1 .. MaxPending : start_game_resume(i)
    \/ \E raw \in PlayRaw, u \in PlayUsers : leave_game(raw, u)
    \/ \E i \in 1 .. MaxPending : leave_game_resume(i)
    \/ Play(PlayUsers, PlayRaw, BarrierAnswers)
    \/ Barrier(WaitClients, PlayRaw)
    \/ cleanup_old_games
    \/ Tick

SpecWait ==
    /\ Init
    /\ [][NextWait]_vars
    /\ \A w \in WaitClients : WF_vars(wait_released(w)) /\ WF_vars(wait_timeout(w))

\* A wait across an advance: a game on one code is started, answered and
\* advanced, and the clients call wait_for_all only while the session is at
\* its first question, so that every suspended wait is one that began there.
AtFirstQuestion(raw) ==
    Normalize(raw) \in Live => games[Normalize(raw)].current_question = 0

\* wait_for_all called while the session is at its first question
wait_at_first_question(w, raw) ==
    AtFirstQuestion(raw) /\ wait_for_all_players(w, raw)

NextStale ==
    \/ \E u \in PlayUsers, c \in PlayCodes : create_game(u, c)
    \/ \E raw \in PlayRaw, u \in PlayUsers : join_game(raw, u)
    \/ \E raw \in PlayRaw, u \in PlayUsers : start_game(raw, u)
    \/ \E i \in 1 .. MaxPending : start_game_resume(i)
    \/ Play(PlayUsers, PlayRaw, BarrierAnswers)
    \/ \E w \in Waiters, raw \in PlayRaw : wait_at_first_question(w, raw)
    \/ \E w \in Waiters : wait_released(w)
    \/ \E w \in Waiters : wait_timeout(w)

SpecStale == Init /\ [][NextStale]_vars

\* The lobby of one code with more users than a session holds: games are
\* created and joined by every user and left by the first NumCapLeavers.
CapUsers == 1 .. NumCapUsers
CapLeavers == 1 .. NumCapLeavers

NextCapacity ==
    \/ \E u \in CapUsers, c \in PlayCodes : create_game(u, c)
    \/ \E raw \in PlayRaw, u \in CapUsers : join_game(raw, u)
    \/ \E raw \in PlayRaw, u \in CapLeavers : leave_game(raw, u)
    \/ \E i \in 1 .. MaxPending : leave_game_resume(i)

SpecCapacity == Init /\ [][NextCapacity]_vars

\* The results of a played game: one session, finished, with every roster of
\* up to NumResultUsers users in every join order and every score a player can
\* have after answering each question once.
ResultUsers == 1 .. NumResultUsers

ResultRosters ==
    {ps \in UNION {[1 .. n -> ResultUsers] : n \in 1 .. NumResultUsers} :
        \A i, j \in DOMAIN ps : ps[i] = ps[j] => i = j}

\* The record GameSession.submit_answer appends for question q answered
\* rightly (ok) or wrongly.
AnswerRecord(q, ok) ==
    LET question == QUESTIONS[q + 1]
        wrong == CHOOSE k \in DOMAIN question.options : k # question.correct + 1
    IN [question_id |-> q,
        answer |-> question.options[IF ok THEN question.correct + 1 ELSE wrong],
        correct |-> ok]

\* The answers of a player who got the first k questions right.
Ledger(k) == [q \in 1 .. Len(QUESTIONS) |-> AnswerRecord(q - 1, q <= k)]

\* The session of roster ps after the last advance, the scores being sc.
FinishedSession(game_id, ps, sc) ==
    [game_id |-> game_id,
     creator_id |-> ps[1],
     players |-> ps,
     scores |-> sc,
     answers |-> [u \in Range(ps) |-> Ledger(sc[u])],
     current_question |-> Len(QUESTIONS),
     started |-> TRUE,
     finished |-> TRUE,
     created_at |-> 0,
     answered_players |-> {},
     waiting_for_next |-> FALSE]

ResultsInit ==
    \E ps \in ResultRosters :
    \E sc \in [Range(ps) -> 0 .. Len(QUESTIONS)] :
        /\ games = (CodeNames[1] :> FinishedSession(CodeNames[1], ps, sc))
        /\ games_order = <<CodeNames[1]>>
        /\ user_games = [u \in Range(ps) |-> CodeNames[1]]
        /\ used_codes = {CodeNames[1]}
        /\ now = 0
        /\ waiters = [w \in Waiters |-> Idle]
        /\ pending = <<>>
        /\ timed_out = {}
        /\ response = NoResponse

NextResults ==
    \/ \E raw \in PlayRaw : get_results_action(raw)
    \/ \E i \in 1 .. MaxPending : get_results_resume(i)

SpecResults == ResultsInit /\ [][NextResults]_vars

(* ------------------------------ claims -------------------------------- *)
\* The sessions of a step that are the same session before and after it.
Same == (DOMAIN games) \cap (DOMAIN games')

AnsweredAll(g) == g.answered_players = Range(g.players)

\* C1: every participant identity is in the roster of at most one live session.
\* Stated as claimed; join_game and create_game do not look at user_games.
C1_OneSessionPerUser ==
    \A u \in Users : Cardinality({c \in Live : u \in Roster(c)}) <= 1

\* C2: a successful advance of a session happens only in a state where the
\* answered-set equals the roster or a wait on the current question has timed
\* out.  Stated as claimed; next_question checks neither.
C2_AdvanceOnlyWhenComplete ==
    [][\A c \in Same :
          games'[c].current_question # games[c].current_question
              => AnsweredAll(games[c]) \/ c \in timed_out]_vars

\* C3: an accepted submission reports all_answered = TRUE exactly when it makes
\* the answered-set equal to the roster, and exactly then it sets the event;
\* it raises the submitter's score by at most 1, leaves every other score alone,
\* and the submitter had not answered the question before.
C3_OneCompletingSubmission ==
    [][games' # games /\ response'.op = "submit_answer" =>
       \A raw \in PlayRaw, u \in PlayUsers, q \in QuestionIds, a \in AnswerIndexes :
          submit_answer(raw, u, q, a) =>
              LET c == Normalize(raw)
                  g == games[c]
                  h == games'[c]
              IN /\ response'.status = "success"
                 /\ h.answered_players = g.answered_players \cup {u}
                 /\ u \notin g.answered_players
                 /\ h.answered_players \subseteq Range(h.players)
                 /\ response'.all_answered = AnsweredAll(h)
                 /\ h.waiting_for_next = AnsweredAll(h)
                 /\ response'.answered_count = Cardinality(h.answered_players)
                 /\ h.scores[u] \in {g.scores[u], g.scores[u] + 1}
                 /\ \A v \in Range(g.players) \ {u} : h.scores[v] = g.scores[v]
                 /\ Cardinality({i \in DOMAIN h.answers[u] :
                                    h.answers[u][i].question_id = q}) = 1]_vars

\* C3 witness: the second of two players has just completed the question.
C3_Witness ==
    /\ response.op = "submit_answer"
    /\ response.all_answered
    /\ response.answered_count = 2
    /\ \E c \in Live : Len(games[c].players) = 2 /\ AnsweredAll(games[c])
                        /\ games[c].waiting_for_next

\* C4: when a submission completes the roster the event is set and every wait
\* suspended on that session is released by that one step; a released wait
\* never times out: it stays released until it returns all_answered = TRUE,
\* timeout = FALSE.
C4_WakeAll ==
    [][/\ \A c \in Same :
              ( /\ games[c].answered_players \subseteq games'[c].answered_players
                /\ games[c].answered_players # games'[c].answered_players
                /\ AnsweredAll(games'[c]) )
              => /\ games'[c].waiting_for_next
                 /\ \A w \in Waiters :
                       waiters[w].st = "waiting" /\ waiters[w].game_id = c
                           => waiters'[w].st = "released"
       /\ \A w \in Waiters :
              waiters[w].st = "released" =>
                  \/ waiters'[w] = waiters[w]
                  \/ /\ waiters'[w].st = "idle"
                     /\ response'.op = "wait_for_all"
                     /\ response'.status = "success"
                     /\ response'.all_answered
                     /\ ~response'.timeout]_vars

\* C4 witness: two clients were suspended on the same session and one
\* submission has released both.
C4_Witness ==
    /\ NumWaiters >= 2
    /\ \A w \in Waiters : waiters[w].st = "released" /\ waiters[w].game_id \in Live
    /\ \A w, v \in Waiters : waiters[w].game_id = waiters[v].game_id

\* C5: when a participant who has not answered leaves a started session and every
\* remaining participant (at least one) has answered, the leave sets the event
\* and releases every wait suspended on the session.  Stated as claimed; the
\* leave_game handler never touches waiting_for_next.
C5_LeaveReleasesBarrier ==
    [][\A c \in Same :
          ( /\ games[c].started
            /\ Len(games'[c].players) < Len(games[c].players)
            /\ Len(games'[c].players) >= 1
            /\ games'[c].answered_players = games[c].answered_players
            /\ AnsweredAll(games'[c]) )
          => /\ games'[c].waiting_for_next
             /\ \A w \in Waiters :
                   waiters[w].st = "waiting" /\ waiters[w].game_id = c
                       => waiters'[w].st = "released"]_vars

\* C6: a successful advance leaves the answered-set empty and the event clear;
\* when the new index is a question, every participant can answer it; and a wait
\* is released, or returns at once with timeout = FALSE, only in a state where
\* the answered-set equals the roster.
C6_AdvanceResets ==
    [][/\ \A raw \in PlayRaw :
              (next_question(raw) /\ games' # games) =>
                  LET c == Normalize(raw)
                      h == games'[c]
                  IN /\ h.answered_players = {}
                     /\ ~h.waiting_for_next
                     /\ h.current_question = games[c].current_question + 1
                     /\ h.current_question < Len(QUESTIONS) =>
                            \A u \in Range(h.players) :
                                submit_check(games', raw, u, h.current_question, 0) = ""
       /\ \A w \in Waiters :
              waiters[w].st = "waiting" /\ waiters'[w].st = "released"
                  => AnsweredAll(games'[waiters[w].game_id])
       /\ \A w \in Waiters, raw \in PlayRaw :
              ( /\ wait_for_all_players(w, raw)
                /\ waiters'[w].st = "idle"
                /\ response'.op = "wait_for_all"
                /\ response'.status = "success" )
              => AnsweredAll(games[Normalize(raw)])]_vars

\* C6 witness: a participant who answered question 0 has answered question 1
\* after the advance.
C6_Witness ==
    \E c \in Live : \E u \in Range(games[c].players) :
        /\ games[c].current_question = 1
        /\ u \in games[c].answered_players
        /\ Len(games[c].answers[u]) = 2
        /\ games[c].answers[u][1].question_id = 0
        /\ games[c].answers[u][2].question_id = 1

\* The failure the spec gives a submission, "" when it names none.
C7_Expected(raw, u, q) ==
    LET c == Normalize(raw) IN
    IF c \notin Live THEN "Game not found"
    ELSE IF ~games[c].started \/ games[c].finished THEN "Game not started"
    ELSE IF q # games[c].current_question THEN "Wrong question"
    ELSE IF u \in games[c].answered_players THEN "Already answered"
    ELSE ""

\* C7: submit-answer returns the first failure of: unknown code, phase not
\* ACTIVE (LOBBY or FINISHED), question index not current, already answered;
\* and a failed submission changes nothing.  Stated as claimed; the code tests
\* started only, so a FINISHED session passes the phase check.
C7_SubmitFailuresInOrder ==
    [][response'.op = "submit_answer" =>
       \A raw \in PlayRaw, u \in PlayUsers, q \in QuestionIds, a \in AnswerIndexes :
          (C7_Expected(raw, u, q) # "" /\ submit_answer(raw, u, q, a)) =>
              /\ response'.status = "error"
              /\ response'.error = C7_Expected(raw, u, q)
              /\ UNCHANGED <<games, waiters>>]_vars

\* C8: a submission by a participant who is in the answered-set, for the current
\* question, returns "Already answered" whatever the choice and changes no
\* session; no ledger holds two records of one question.
C8_DuplicateAnswer ==
    [][/\ response'.op = "submit_answer" =>
          \A raw \in PlayRaw, u \in PlayUsers, q \in QuestionIds, a \in AnswerIndexes :
             ( /\ Normalize(raw) \in Live
               /\ u \in games[Normalize(raw)].answered_players
               /\ q = games[Normalize(raw)].current_question
               /\ submit_answer(raw, u, q, a) )
             => /\ response'.status = "error"
                /\ response'.error = "Already answered"
                /\ UNCHANGED <<games, waiters>>
       /\ games' # games =>
             \A c \in DOMAIN games' : \A u \in DOMAIN games'[c].answers :
                \A i, j \in DOMAIN games'[c].answers[u] :
                    games'[c].answers[u][i].question_id
                        = games'[c].answers[u][j].question_id => i = j]_vars

\* C8 witness: a participant with an accepted answer has been refused a second.
C8_Witness ==
    /\ response.op = "submit_answer"
    /\ response.error = "Already answered"
    /\ \E c \in Live : \E u \in games[c].answered_players :
           Len(games[c].answers[u]) >= 1

\* C9: a wait that ends without having been released ends by its timeout: it
\* returns timeout = TRUE and all_answered = FALSE and changes no session.
C9_TimeoutReturn ==
    [][\A w \in Waiters :
          (waiters[w].st \in {"waiting", "orphan"} /\ waiters'[w].st = "idle") =>
              /\ response'.op = "wait_for_all"
              /\ response'.status = "success"
              /\ response'.timeout
              /\ ~response'.all_answered
              /\ UNCHANGED <<games, user_games>>]_vars

\* C9 witness: a wait has timed out on a started session where one of two
\* participants has answered.
C9_Witness ==
    /\ response.op = "wait_for_all"
    /\ response.timeout
    /\ \E c \in Live \cap timed_out :
           /\ games[c].started
           /\ Cardinality(games[c].answered_players) = 1
           /\ Len(games[c].players) = 2

\* C10: on a FINISHED session join, start, submit-answer and advance fail and
\* change nothing, so current_question never exceeds the number of questions.
\* Stated as claimed; next_question and start_game test started only.
C10_FinishedIsTerminal ==
    [][\A raw \in PlayRaw :
          (Normalize(raw) \in Live /\ games[Normalize(raw)].finished) =>
              /\ next_question(raw) =>
                     response'.status = "error" /\ UNCHANGED games
              /\ \A u \in PlayUsers :
                     /\ join_game(raw, u) =>
                            response'.status = "error" /\ UNCHANGED games
                     /\ start_game(raw, u) =>
                            response'.status = "error" /\ UNCHANGED <<games, pending>>
                     /\ \A q \in QuestionIds, a \in AnswerIndexes :
                            submit_answer(raw, u, q, a) =>
                                response'.status = "error" /\ UNCHANGED games]_vars

\* C11: current_question never decreases and changes only by 1; a session
\* becomes finished exactly in the step that takes its index to the length of
\* the question list; an advance on a started session succeeds with the index
\* one higher, and an advance on a session not started or on an unknown code
\* fails and changes nothing.
C11_AdvanceByOne ==
    [][/\ \A c \in Same :
              /\ games'[c].current_question
                     \in {games[c].current_question, games[c].current_question + 1}
              /\ (~games[c].finished /\ games'[c].finished)
                     <=> ( /\ games'[c].current_question
                                  = games[c].current_question + 1
                           /\ games'[c].current_question = Len(QUESTIONS) )
       /\ \A raw \in PlayRaw :
              next_question(raw) =>
                  LET c == Normalize(raw) IN
                  IF c \in Live /\ games[c].started
                  THEN /\ response'.status = "success"
                       /\ games'[c].current_question
                              = games[c].current_question + 1
                       /\ response'.current_question = games'[c].current_question
                       /\ response'.finished = games'[c].finished
                  ELSE /\ response'.status = "error"
                       /\ UNCHANGED <<games, games_order, user_games, used_codes,
                                      waiters, pending>>]_vars

\* C11 witness: the advance at the last index has finished a session.
C11_Witness ==
    /\ response.op = "next_question"
    /\ response.status = "success"
    /\ response.finished
    /\ \E c \in Live : /\ games[c].finished
                       /\ games[c].current_question = Len(QUESTIONS)

\* The requester is the creator of the session and its roster has 2 or more.
C12_Allowed(raw, u) ==
    LET c == Normalize(raw) IN
    /\ c \in Live
    /\ games[c].creator_id = u
    /\ Cardinality(Roster(c)) >= 2

\* C12: a start by the creator of a session with 2 or more participants marks
\* the session started and changes nothing else of it; any other start reports
\* failure and changes nothing; a session turns started, and a start reports
\* success, only through a start that met both conditions.
C12_StartByCreator ==
    [][/\ \A raw \in PlayRaw, u \in PlayUsers :
              start_game(raw, u) =>
                  IF C12_Allowed(raw, u)
                  THEN /\ games' = [games EXCEPT ![Normalize(raw)].started = TRUE]
                       /\ UNCHANGED <<games_order, user_games, used_codes>>
                  ELSE /\ response'.op = "start_game"
                       /\ response'.status = "error"
                       /\ UNCHANGED <<games, games_order, user_games, used_codes,
                                      waiters, pending>>
       /\ \A c \in Same :
              (~games[c].started /\ games'[c].started) =>
                  /\ Cardinality(Roster(c)) >= 2
                  /\ games'[c] = [games[c] EXCEPT !.started = TRUE]
       /\ \A i \in DOMAIN pending' :
              (pending'[i].kind = "start" /\ i \notin DOMAIN pending) =>
                  \E raw \in PlayRaw, u \in PlayUsers :
                      /\ C12_Allowed(raw, u)
                      /\ pending'[i].game_id = Normalize(raw)
       /\ ( /\ response'.op = "start_game"
            /\ response'.status = "success"
            /\ response' # response )
          => \E i \in DOMAIN pending :
                 pending[i].kind = "start" /\ pending' = DropPending(pending, i)]_vars

\* C12 witness: the creator has started a session of two and was told so.
C12_Witness ==
    /\ response.op = "start_game"
    /\ response.status = "success"
    /\ \E c \in Live : /\ games[c].started
                       /\ games[c].current_question = 0
                       /\ Len(games[c].players) = 2

\* C13: a join on an unknown code or on a started session (ACTIVE or FINISHED)
\* fails; a join that fails changes no session, no roster and no entry of the
\* reverse index; a join that succeeds appends the user, who was not in the
\* roster, to the roster of that session.
C13_FailedJoinChangesNothing ==
    [][response'.op = "join_game" =>
       \A raw \in PlayRaw, u \in PlayUsers :
          join_game(raw, u) =>
              LET c == Normalize(raw) IN
              /\ (c \notin Live \/ games[c].started \/ games[c].finished
                     \/ u \in Roster(c))
                     => response'.status = "error"
              /\ response'.status = "error"
                     => UNCHANGED <<games, games_order, user_games, used_codes>>
              /\ response'.status = "success"
                     => /\ games'[c].players = Append(games[c].players, u)
                        /\ user_games'[u] = c]_vars

\* C13 witness: a join on a started session has been refused.
C13_Witness ==
    /\ response.op = "join_game"
    /\ response.status = "error"
    /\ \E c \in Live : games[c].started /\ Len(games[c].players) = 1

\* C14: the roster of every live session has at most MAX_PLAYERS participants,
\* and a join on a session whose roster is at the maximum fails and changes
\* no session and no entry of the reverse index.
C14_RosterBounded ==
    [][/\ \A c \in DOMAIN games' : Len(games'[c].players) <= MAX_PLAYERS
       /\ response'.op = "join_game" =>
             \A raw \in PlayRaw, u \in CapUsers :
                ( /\ Normalize(raw) \in Live
                  /\ Len(games[Normalize(raw)].players) >= MAX_PLAYERS
                  /\ join_game(raw, u) )
                => /\ response'.status = "error"
                   /\ UNCHANGED <<games, games_order, user_games, used_codes>>]_vars

\* C14 witness: a session in the lobby is full, a user is outside it, and a
\* join has been refused.
C14_Witness ==
    /\ response.op = "join_game"
    /\ response.status = "error"
    /\ \E c \in Live : /\ Len(games[c].players) = MAX_PLAYERS
                       /\ ~games[c].started
                       /\ CapUsers \ Roster(c) # {}

\* C15: a leave by a user with an entry in the reverse index removes the user
\* from the roster of the session the entry names and removes the entry; no
\* other session is removed or modified, whatever code the request carries;
\* and once no leave handler is suspended no live session has an empty roster.
\* Stated as claimed; the handler ends the session the request names, not the
\* one it emptied.
C15_LeaveOwnSessionOnly ==
    [][/\ \A raw \in RegRaw, u \in PlayUsers :
              (u \in DOMAIN user_games /\ leave_game(raw, u)) =>
                  LET own == user_games[u] IN
                  /\ u \notin DOMAIN user_games'
                  /\ own \in DOMAIN games' =>
                         u \notin Range(games'[own].players)
                  /\ \A c \in Live \ {own} :
                         c \in DOMAIN games' /\ games'[c] = games[c]
       /\ \A i \in DOMAIN pending :
              (pending[i].kind = "leave" /\ leave_game_resume(i)) =>
                  \A c \in Live \ {pending[i].game_id} :
                      c \in DOMAIN games' /\ games'[c] = games[c]
       /\ (\A i \in DOMAIN pending' : pending'[i].kind # "leave") =>
              \A c \in DOMAIN games' : Len(games'[c].players) > 0]_vars

\* C16: the reverse index maps user u to code c if and only if c is a live
\* session with u in its roster.  Stated as claimed; create_game and join_game
\* overwrite the entry of a user who is in another roster.
C16_ReverseIndexConsistent ==
    \A u \in Users, c \in Codes :
        (u \in DOMAIN user_games /\ user_games[u] = c)
            <=> (c \in Live /\ u \in Roster(c))

\* What end(c) is to make of registry R, S being what it made: the entries of
\* the reverse index that name c go, the others stay.
C17_Frame(R, S, c) ==
    IF c \in DOMAIN R.games
    THEN /\ c \notin S.used_codes
         /\ DOMAIN S.games = (DOMAIN R.games) \ {c}
         /\ \A d \in DOMAIN S.games : S.games[d] = R.games[d]
         /\ DOMAIN S.user_games
                = {u \in DOMAIN R.user_games : R.user_games[u] # c}
         /\ \A u \in DOMAIN S.user_games : S.user_games[u] = R.user_games[u]
    ELSE S = R

\* C17: end_game on a live code removes the session and the reverse-index
\* entries that name it and takes the code out of used_codes, leaving every
\* other session and the entries of the participants of other sessions as they
\* were; on a code that is not live it changes nothing.  Stated as claimed;
\* end_game deletes the entry of every player of the session, whatever session
\* the entry names.
C17_EndRemovesOneSession ==
    [][\A i \in DOMAIN pending :
          (pending[i].kind = "results" /\ get_results_resume(i)) =>
              C17_Frame(Registry,
                        [games |-> games', games_order |-> games_order',
                         user_games |-> user_games', used_codes |-> used_codes',
                         waiters |-> waiters', pending |-> pending',
                         timed_out |-> timed_out'],
                        pending[i].game_id)
              \/ pending[i].game_id \notin Live]_vars

\* C18: create draws a code that no live session has, leaves every live
\* session as it was, and adds one session: not started, not finished, at
\* question 0, with the creator as its only player, at score 0 and with no
\* answers.
C18_CreateFresh ==
    [][response'.op = "create_game" =>
       \A u \in PlayUsers, c \in Codes :
          create_game(u, c) =>
              /\ c \notin Live
              /\ DOMAIN games' = Live \cup {c}
              /\ \A d \in Live : games'[d] = games[d]
              /\ games'[c].game_id = c
              /\ games'[c].creator_id = u
              /\ games'[c].players = <<u>>
              /\ DOMAIN games'[c].scores = {u}
              /\ games'[c].scores[u] = 0
              /\ DOMAIN games'[c].answers = {u}
              /\ games'[c].answers[u] = <<>>
              /\ games'[c].current_question = 0
              /\ ~games'[c].started
              /\ ~games'[c].finished
              /\ games'[c].answered_players = {}
              /\ ~games'[c].waiting_for_next]_vars

\* C18 witness: a session has been created while another one, with two
\* players, was live.
C18_Witness ==
    /\ response.op = "create_game"
    /\ \E c, d \in Live :
           /\ c # d
           /\ Len(games[c].players) = 1
           /\ Len(games[d].players) = 2

\* The place of user u in the roster of session g.
C19_Place(g, u) == CHOOSE i \in DOMAIN g.players : g.players[i] = u

\* rs lists the players of session g once each with their scores, by score
\* descending, players of equal score in roster order.
C19_Ordered(g, rs) ==
    /\ Len(rs) = Len(g.players)
    /\ {rs[i].username : i \in DOMAIN rs} = Range(g.players)
    /\ \A i \in DOMAIN rs :
           /\ rs[i].score = g.scores[rs[i].username]
           /\ rs[i].total = Len(QUESTIONS)
    /\ \A i, j \in DOMAIN rs :
           i < j => \/ rs[i].score > rs[j].score
                    \/ /\ rs[i].score = rs[j].score
                       /\ C19_Place(g, rs[i].username) < C19_Place(g, rs[j].username)

\* C19: get_results of a live session lists every roster member once, by
\* score descending, ties in join order, and the get_results request of a
\* session with players returns that list; for a code that is not live the
\* request returns not found.
C19_ResultsOrdered ==
    [][/\ \A c \in Live : C19_Ordered(games[c], get_results(games[c]))
       /\ \A raw \in PlayRaw :
              get_results_action(raw) =>
                  LET c == Normalize(raw) IN
                  /\ (c \in Live /\ games[c].players # <<>>) =>
                         /\ response'.status = "success"
                         /\ C19_Ordered(games[c], response'.results)
                  /\ c \notin Live =>
                         /\ response'.status = "error"
                         /\ response'.error = "Game not found"
                         /\ response'.results = <<>>]_vars

\* C19 witness: the results of three players were returned, two of them tied
\* behind the third, who joined last.
C19_Witness ==
    /\ response.op = "get_results"
    /\ response.status = "success"
    /\ Len(response.results) = 3
    /\ response.results[1].score > response.results[2].score
    /\ response.results[2].score = response.results[3].score
    /\ \E c \in Live : games[c].players[3] = response.results[1].username

\* C20: the sweep removes every live session older than 7200 seconds, whatever
\* its phase, with the reverse-index entry of each of its players, and a
\* session not older than that stays live and unchanged.
C20_SweepByAge ==
    [][cleanup_old_games =>
          \A c \in Live :
              IF now - games[c].created_at > 7200
              THEN /\ c \notin DOMAIN games'
                   /\ c \notin used_codes'
                   /\ \A u \in Roster(c) : u \notin DOMAIN user_games'
              ELSE /\ c \in DOMAIN games'
                   /\ games'[c] = games[c]]_vars

\* C20 witness: a sweep has removed one session and kept another, which is
\* exactly 7200 seconds old and started.
C20_Witness ==
    /\ response.op = "cleanup"
    /\ response.total_players >= 1
    /\ \E c \in Live : /\ now - games[c].created_at = 7200
                       /\ games[c].started

\* The names of the exceptions a reply of handle_webapp_data can carry.
C21_Exceptions == {"IndexError", "KeyError", "RuntimeError"}

\* C21: no operation of the registry raises: no reply reports an exception, in
\* particular not for a submission by a user outside the roster, with a choice
\* index outside the options, or on a finished session at its current index.
\* Stated as claimed; GameManager.submit_answer raises KeyError and IndexError
\* in these cases.
C21_NoException ==
    response.error \notin C21_Exceptions

\* The number of records of ledger l marked correct.
C22_Correct(l) == Cardinality({i \in DOMAIN l : l[i].correct})

\* C22: for every participant who stays in a session the score does not
\* decrease and the ledger changes only by one record appended, which adds 1
\* to the score when it is correct and nothing when it is not; an accepted
\* submission appends the record of its question and choice, correct exactly
\* when the choice is the question's correct option; every ledger holds at
\* most one record per question index, and every score equals the number of
\* correct records of the ledger.
C22_ScoreLedger ==
    [][/\ \A c \in DOMAIN games' : \A u \in Range(games'[c].players) :
              LET l == games'[c].answers[u] IN
              /\ games'[c].scores[u] = C22_Correct(l)
              /\ \A i, j \in DOMAIN l : l[i].question_id = l[j].question_id => i = j
       /\ \A c \in Same : \A u \in Roster(c) \cap Range(games'[c].players) :
              LET l == games[c].answers[u]
                  m == games'[c].answers[u]
                  s == games[c].scores[u]
                  t == games'[c].scores[u]
              IN /\ t >= s
                 /\ Len(m) \in {Len(l), Len(l) + 1}
                 /\ SubSeq(m, 1, Len(l)) = l
                 /\ Len(m) = Len(l) => t = s
                 /\ Len(m) = Len(l) + 1 =>
                        t = s + (IF m[Len(m)].correct THEN 1 ELSE 0)
       /\ (games' # games /\ response'.op = "submit_answer") =>
             \A raw \in PlayRaw, u \in PlayUsers, q \in QuestionIds,
                a \in AnswerIndexes :
                submit_answer(raw, u, q, a) =>
                    LET c == Normalize(raw)
                        ok == (a = QUESTIONS[q + 1].correct)
                    IN /\ games'[c].answers[u]
                              = Append(games[c].answers[u],
                                       [question_id |-> q,
                                        answer |-> QUESTIONS[q + 1].options[a + 1],
                                        correct |-> ok])
                       /\ games'[c].scores[u]
                              = games[c].scores[u] + (IF ok THEN 1 ELSE 0)
                       /\ response'.correct = ok
                       /\ response'.score = games'[c].scores[u]]_vars

\* C22 witness: a participant has answered one question rightly and the next
\* wrongly, and the score is 1.
C22_Witness ==
    /\ response.op = "submit_answer"
    /\ response.status = "success"
    /\ ~response.correct
    /\ response.score = 1
    /\ \E c \in Live : \E u \in Roster(c) :
           /\ Len(games[c].answers[u]) = 2
           /\ games[c].answers[u][1].correct
           /\ ~games[c].answers[u][2].correct
           /\ games[c].scores[u] = 1

\* C23: the answered-set of every session is a subset of its roster; a member
\* leaves it only in a step that advances the question, which empties it, or
\* in the step in which that member leaves the roster; and no submit, join,
\* start or wait step takes a member out of it.
C23_AnsweredSubset ==
    [][/\ \A c \in DOMAIN games' :
              games'[c].answered_players \subseteq Range(games'[c].players)
       /\ \A c \in Same :
              /\ games'[c].current_question # games[c].current_question
                     => games'[c].answered_players = {}
              /\ \A u \in games[c].answered_players \ games'[c].answered_players :
                     \/ /\ games'[c].current_question
                               = games[c].current_question + 1
                        /\ games'[c].players = games[c].players
                     \/ /\ u \in Roster(c)
                        /\ u \notin Range(games'[c].players)
                        /\ games'[c].current_question = games[c].current_question
                        /\ games'[c].answered_players
                               = games[c].answered_players \ {u}
       /\ (\E c \in Same :
              ~(games[c].answered_players \subseteq games'[c].answered_players))
          => /\ \A raw \in PlayRaw, u \in PlayUsers :
                    /\ ~join_game(raw, u)
                    /\ ~start_game(raw, u)
                    /\ \A q \in QuestionIds, a \in BarrierAnswers :
                           ~submit_answer(raw, u, q, a)
             /\ \A w \in Waiters :
                    /\ ~wait_released(w)
                    /\ ~wait_timeout(w)
                    /\ \A raw \in PlayRaw : ~wait_for_all_players(w, raw)]_vars

\* C23 witness: after an advance to question 1 the answered-set is empty while
\* both participants hold their record of question 0.
C23_Witness ==
    \E c \in Live :
        /\ games[c].current_question = 1
        /\ games[c].answered_players = {}
        /\ Len(games[c].players) = 2
        /\ \A u \in Roster(c) : Len(games[c].answers[u]) = 1
        /\ response.op = "next_question"

\* C24: get_game_info, get_results and wait_for_all_players change no session
\* and nothing of the registry, whether the wait suspends, returns at once, is
\* released, times out or is abandoned; a wait that ends leaves every other
\* wait as it was, and a submission that completes the roster releases every
\* wait still suspended on the session.
C24_ObserversChangeNothing ==
    [][/\ \A raw \in PlayRaw :
              (get_game_info(raw) \/ get_results_action(raw)) =>
                  UNCHANGED <<games, games_order, user_games, used_codes,
                              waiters, timed_out>>
       /\ \A w \in Waiters :
              ( \/ \E raw \in PlayRaw : wait_for_all_players(w, raw)
                \/ wait_released(w)
                \/ wait_timeout(w)
                \/ wait_cancelled(w) )
              => /\ UNCHANGED <<games, games_order, user_games, used_codes,
                                pending>>
                 /\ \A v \in Waiters \ {w} : waiters'[v] = waiters[v]
       /\ \A w \in Waiters :
              wait_cancelled(w) => waiters'[w] = Idle /\ UNCHANGED response
       /\ \A c \in Same :
              ( /\ games[c].answered_players # games'[c].answered_players
                /\ AnsweredAll(games'[c]) )
              => \A w \in Waiters :
                     waiters[w].st = "waiting" /\ waiters[w].game_id = c
                         => waiters'[w].st = "released"]_vars

\* C24 witness: of two clients suspended on a session one has abandoned its
\* wait, and the submission that completed the roster has released the other.
C24_Witness ==
    /\ response.op = "submit_answer"
    /\ response.all_answered
    /\ \E w, v \in Waiters :
           /\ waiters[w] = Idle
           /\ waiters[v].st = "released"
    /\ timed_out = {}

\* C25: a wait called when the answered-set equals the roster returns at once,
\* without suspending, all_answered = TRUE and timeout = FALSE; a suspended
\* wait can always resume, by its timeout or, once released, by the release,
\* whatever has happened to its session; and every wait returns.
C25_WaitReturns ==
    /\ [][\A w \in WaitClients, raw \in PlayRaw :
             ( /\ Normalize(raw) \in Live
               /\ AnsweredAll(games[Normalize(raw)])
               /\ wait_for_all_players(w, raw) )
             => /\ waiters'[w] = Idle
                /\ response'.op = "wait_for_all"
                /\ response'.status = "success"
                /\ response'.all_answered
                /\ ~response'.timeout]_vars
    /\ [](\A w \in WaitClients :
             /\ waiters[w].st \in {"waiting", "orphan"} => ENABLED wait_timeout(w)
             /\ waiters[w].st = "released" => ENABLED wait_released(w))
    /\ \A w \in WaitClients :
           (waiters[w].st # "idle") ~> (waiters[w].st = "idle")

\* C25 witness: a wait has returned by its timeout after its session had left
\* the registry.
C25_Witness ==
    /\ response.op = "wait_for_all"
    /\ response.timeout
    /\ Live = {}
    /\ \A w \in WaitClients : waiters[w] = Idle

\* C26: a create call returns in every reachable state: with a code when one
\* is free, with a failure when none is.  Stated as claimed; the loop of
\* generate_game_code has no exit but a free code, so with every code in use
\* create_game has no step to take.
C26_CreateReturns ==
    \A u \in PlayUsers : ENABLED (\E c \in Codes : create_game(u, c))

\* C27: in every session whose event is set the answered-set equals the
\* roster; the event becomes set only in the step of an accepted submission
\* that reports all_answered, it stays as it is when a participant leaves, and
\* it is cleared only by an advance of the question.
C27_EventImpliesComplete ==
    [][/\ \A c \in DOMAIN games' :
              games'[c].waiting_for_next => AnsweredAll(games'[c])
       /\ \A c \in Same :
              /\ (~games[c].waiting_for_next /\ games'[c].waiting_for_next)
                     => /\ response'.op = "submit_answer"
                        /\ response'.status = "success"
                        /\ response'.all_answered
                        /\ games'[c].current_question = games[c].current_question
                        /\ Cardinality(games'[c].answered_players)
                               = Cardinality(games[c].answered_players) + 1
              /\ (games[c].waiting_for_next /\ ~games'[c].waiting_for_next)
                     => /\ games'[c].current_question
                               = games[c].current_question + 1
                        /\ games'[c].answered_players = {}
              /\ Len(games'[c].players) < Len(games[c].players)
                     => games'[c].waiting_for_next = games[c].waiting_for_next]_vars

\* C27 witness: both participants had answered question 0, the event is set,
\* and one of them has left: the answered-set is still the roster.
C27_Witness ==
    /\ response.op = "leave_game"
    /\ \E c \in Live :
           /\ games[c].started
           /\ games[c].current_question = 0
           /\ games[c].waiting_for_next
           /\ Len(games[c].players) = 1
           /\ AnsweredAll(games[c])

\* C28: a wait is released only by the completion of the question that was
\* current when it began.  In SpecStale every wait begins at question 0, and
\* no session ends, so the session of a suspended wait is live: a wait is
\* released only in a step that completes question 0.  Stated as claimed;
\* next_question leaves a suspended wait on the event, and the completion of
\* the next question sets that same event.
C28_NoStaleRelease ==
    [][\A w \in Waiters :
          (waiters[w].st = "waiting" /\ waiters'[w].st = "released") =>
              /\ games'[waiters[w].game_id].current_question = 0
              /\ AnsweredAll(games'[waiters[w].game_id])]_vars
====
